---- MODULE Spec2Model ----
(***************************************************************************)
(* Model of the RAG engine of the TDS Virtual Teaching Assistant:          *)
(* app/rag_engine.py (module-level singletons, background warm-up thread,  *)
(* RAGEngine.answer_question) and main.py (GET /health, POST /).           *)
(*                                                                         *)
(* A Python string is modelled as a sequence of tokens.  A token is an     *)
(* atomic piece of text: the separator "/", the blank " ", the metadata    *)
(* marker "**URL:**", or a word.  Substring tests of the code ("x in s")   *)
(* are tests for the presence of the word.                                 *)
(***************************************************************************)
EXTENDS Integers, Sequences, FiniteSets, Bags, TLC

(***************************************************************************)
(* Bounds of the model.                                                    *)
(***************************************************************************)
\* RAGEngine objects constructed in one process (main.py:34, tests/test_rag.py:32)
MaxEngines == 2
\* lines of a generated content file (the loader scans a file line by line)
MaxLines == 2
\* path components of a generated source
MaxSegments == 2

(***************************************************************************)
(* Program constants.                                                      *)
(***************************************************************************)
NUM_RETRIEVED_DOCS == 3

(***************************************************************************)
(* Strings.                                                                *)
(***************************************************************************)
MARK == "**URL:**"
SLASH == "/"
BLANK == " "
DigitWords == {"5", "7", "12", "42"}

Contains(s, w) == \E i \in DOMAIN s : s[i] = w

RECURSIVE RemoveAll(_, _)
\* str.replace(w, "")
RemoveAll(s, w) ==
    IF s = <<>> THEN <<>>
    ELSE IF Head(s) = w THEN RemoveAll(Tail(s), w)
         ELSE <<Head(s)>> \o RemoveAll(Tail(s), w)

RECURSIVE LStrip(_)
LStrip(s) == IF s # <<>> /\ Head(s) = BLANK THEN LStrip(Tail(s)) ELSE s

RECURSIVE RStrip(_)
RStrip(s) ==
    IF s # <<>> /\ s[Len(s)] = BLANK THEN RStrip(SubSeq(s, 1, Len(s) - 1)) ELSE s

\* str.strip()
Strip(s) == RStrip(LStrip(s))

\* positions of "/" in s
SlashAt(s) == {i \in DOMAIN s : s[i] = SLASH}

Max(S) == CHOOSE x \in S : \A y \in S : y <= x
Min2(a, b) == IF a <= b THEN a ELSE b

\* source.split("/")[-1]
LastPart(s) ==
    IF SlashAt(s) = {} THEN s ELSE SubSeq(s, Max(SlashAt(s)) + 1, Len(s))

RECURSIVE DropTrailingSlashes(_)
DropTrailingSlashes(s) ==
    IF s # <<>> /\ s[Len(s)] = SLASH
    THEN DropTrailingSlashes(SubSeq(s, 1, Len(s) - 1)) ELSE s

\* Path(source).name: the last non-empty path component
PathName(s) == LastPart(DropTrailingSlashes(s))

IsSuffix(w) == w \in {".md", ".txt"}

\* Path(source).stem: the name without its last suffix
PathStem(s) ==
    LET n == PathName(s)
    IN  IF Len(n) >= 2 /\ IsSuffix(n[Len(n)]) THEN SubSeq(n, 1, Len(n) - 1) ELSE n

\* str.isdigit()
IsDigit(s) == s # <<>> /\ \A i \in DOMAIN s : s[i] \in DigitWords

(***************************************************************************)
(* Link labels.                                                            *)
(***************************************************************************)
_get_discourse_post_title(post_id) == <<"Discourse Post #">> \o post_id

_format_source_discussion_first(source) ==
    IF Contains(source, "onlinedegree.iitm.ac.in") /\ SlashAt(source) # {}
    THEN <<"Discussion: ">> \o _get_discourse_post_title(LastPart(source))
    ELSE IF Contains(source, "course_content")
    THEN <<"Course Material: ">> \o PathName(source)
    ELSE IF Contains(source, "onlinedegree.iitm.ac.in")
    THEN <<"Discussion Post: ">> \o LastPart(source)
    ELSE IF Contains(source, "discourse_posts")
    THEN IF IsDigit(PathStem(source))
         THEN _get_discourse_post_title(PathStem(source))
         ELSE <<"Discourse Post: ">> \o PathName(source)
    ELSE PathName(source)

\* the branches of the try block in the order the code tests them; Path(),
\* path.name, path.stem, str.split and "x in source" raise for no string, so
\* the except clause (return source) is never entered for a string
_format_source_as_link_text(source) ==
    IF Contains(source, "course_content")
    THEN <<"Course Material: ">> \o PathName(source)
    ELSE IF Contains(source, "discourse_posts")
            \/ Contains(source, "onlinedegree.iitm.ac.in")
    THEN IF Contains(source, "onlinedegree.iitm.ac.in")
         THEN IF SlashAt(source) # {}
              THEN <<"Discussion: ">> \o _get_discourse_post_title(LastPart(source))
              ELSE <<"Discussion Post: ">> \o LastPart(source)
         ELSE IF IsDigit(PathStem(source))
              THEN _get_discourse_post_title(PathStem(source))
              ELSE <<"Discourse Post: ">> \o PathName(source)
    ELSE PathName(source)

(***************************************************************************)
(* The content directory and the Content Loader.                           *)
(* A file is [name, suffix, lines, readable, parts]: suffix is the          *)
(* extension of its name, lines its text split at "\n", parts the number   *)
(* of chunks the text splitter cuts it into.                               *)
(***************************************************************************)
SrcExample == <<"https:", "/", "/", "example.com", "/", "t", "/", "5", "/", "7">>
SrcCourse == <<"data", "/", "course_content", "/", "week1", ".md">>
SrcDiscourse == <<"https:", "/", "/", "onlinedegree.iitm.ac.in", "/", "t", "/", "42">>
SrcPostFile == <<"data", "/", "discourse_posts", "/", "12", ".md">>

FileExample ==
    [name |-> "post7.md", suffix |-> ".md",
     lines |-> << <<MARK, BLANK>> \o SrcExample, <<>>,
                  <<"Python dicts are hash maps.">> >>,
     readable |-> TRUE, parts |-> 1]
FileLong ==
    [name |-> "post42.md", suffix |-> ".md",
     lines |-> << <<"# Title">>, <<MARK, BLANK>> \o SrcDiscourse \o <<BLANK>>,
                  <<"body">>, <<MARK, BLANK>> \o SrcExample >>,
     readable |-> TRUE, parts |-> 2]
FileNoUrl ==
    [name |-> "notes.md", suffix |-> ".md", lines |-> << <<"no marker here">> >>,
     readable |-> TRUE, parts |-> 1]
FileUnreadable ==
    [name |-> "broken.md", suffix |-> ".md", lines |-> << <<MARK, BLANK>> \o SrcCourse >>,
     readable |-> FALSE, parts |-> 1]

\* a content directory is [exists, files]
DirMissing == [exists |-> FALSE, files |-> <<>>]
DirOneFile == [exists |-> TRUE, files |-> <<FileExample>>]
DirMixed == [exists |-> TRUE, files |-> <<FileLong, FileUnreadable, FileNoUrl>>]
ContentDirs == {DirMissing, DirOneFile, DirMixed}

RECURSIVE ExtractUrl(_)
\* the for loop over lines: the first line holding the marker decides
ExtractUrl(lines) ==
    IF lines = <<>> THEN <<>>
    ELSE IF Contains(Head(lines), MARK) THEN Strip(RemoveAll(Head(lines), MARK))
         ELSE ExtractUrl(Tail(lines))

MakeDocument(file) ==
    [page_content |-> file.lines, parts |-> file.parts,
     metadata |-> [source |-> ExtractUrl(file.lines), filename |-> file.name]]

LoadFilesAborting(files) ==
    LET bad == {i \in DOMAIN files : ~files[i].readable}
        n == IF bad = {} THEN Len(files)
             ELSE (CHOOSE i \in bad : \A j \in bad : i <= j) - 1
    IN  [i \in 1..n |-> MakeDocument(files[i])]

RECURSIVE LoadFiles(_)
\* the for loop over md_files: the inner try/except logs a file that cannot
\* be read and goes on with the next
LoadFiles(files) ==
    IF files = <<>> THEN <<>>
    ELSE IF Head(files).readable
         THEN <<MakeDocument(Head(files))>> \o LoadFiles(Tail(files))
         ELSE LoadFiles(Tail(files))

\* discourse_path.glob("*.md")
IsMarkdown(file) == file.suffix = ".md"
Glob(files) == SelectSeq(files, IsMarkdown)

_load_documents(dir) == IF dir.exists THEN LoadFiles(Glob(dir.files)) ELSE <<>>

(***************************************************************************)
(* Content directories for the Content Loader taken alone: files of up to  *)
(* MaxLines lines, each line one of LoaderLines.                           *)
(***************************************************************************)
LoaderLines ==
    {<<>>,
     <<"body">>,
     <<MARK, BLANK>> \o SrcExample,
     <<BLANK, MARK>> \o SrcDiscourse \o <<BLANK>>,
     <<"see", BLANK, MARK, BLANK>> \o SrcExample,
     <<MARK>>}

LoaderTexts == UNION {[1..n -> LoaderLines] : n \in 1..MaxLines}

LoaderFiles ==
    {[name |-> "post" \o x, suffix |-> x, lines |-> l, readable |-> r, parts |-> 1] :
        x \in {".md", ".txt"}, l \in LoaderTexts, r \in BOOLEAN}

\* no directory, a directory with one file, a batch with the file in the middle
LoaderDirs ==
    {DirMissing}
    \cup {[exists |-> TRUE, files |-> <<f>>] : f \in LoaderFiles}
    \cup {[exists |-> TRUE, files |-> <<FileExample, f, FileNoUrl>>] : f \in LoaderFiles}

(***************************************************************************)
(* The chunker: every chunk carries its document's metadata.               *)
(***************************************************************************)
PartNames == <<"#1", "#2", "#3">>

SplitOne(doc) ==
    [i \in 1..doc.parts |->
        [page_content |-> <<doc.metadata.filename, PartNames[i]>>,
         metadata |-> doc.metadata]]

RECURSIVE split_documents(_)
split_documents(docs) ==
    IF docs = <<>> THEN <<>>
    ELSE SplitOne(Head(docs)) \o split_documents(Tail(docs))

(***************************************************************************)
(* The persisted index and the index library.                              *)
(* A vector store is [exists, docs]; None is the store that does not exist.*)
(***************************************************************************)
NoStore == [exists |-> FALSE, docs |-> <<>>]
Store(chunks) == [exists |-> TRUE, docs |-> chunks]

ChunkOf(src, file, part) ==
    [page_content |-> <<file, part>>,
     metadata |-> [source |-> src, filename |-> file]]

\* an index persisted by an earlier run of the service; it holds more chunks
\* than a search returns, and one chunk three times (the index library keeps
\* duplicates)
PersistedIndex ==
    Store(<<ChunkOf(SrcCourse, "week1.md", "#1"),
            ChunkOf(SrcCourse, "week1.md", "#1"),
            ChunkOf(SrcPostFile, "12.md", "#1"),
            ChunkOf(SrcCourse, "week1.md", "#1")>>)
DiskStates == {NoStore, PersistedIndex}

\* str(e) of the exceptions the external calls raise
Messages == {"", "boom"}
NoError == "<None>"
None == "None"

(***************************************************************************)
(* State.                                                                  *)
(***************************************************************************)
VARIABLES
    contentDir,                 \* settings.DISCOURSE_DATA_PATH on disk
    disk,                       \* settings.VECTOR_DB_PATH on disk
    bootDisk,                   \* what was at VECTOR_DB_PATH when the process started
    _embedding_model,
    _gemini_model,
    _vector_store,
    _initialization_complete,
    _initialization_error,
    threads,                    \* the init_threads of the RAGEngines constructed
    req                         \* the call being served

vars == <<contentDir, disk, bootDisk, _embedding_model, _gemini_model,
          _vector_store, _initialization_complete, _initialization_error,
          threads, req>>

globals == <<_embedding_model, _gemini_model, _vector_store,
             _initialization_complete, _initialization_error>>

\* a warm-up thread: its position in initialize_in_background, what
\* get_vector_store returned to it, the outcome of its FAISS.load_local,
\* and the message of the exception that ended it.  The threads run the same
\* code on the same settings, so they are kept as a bag of such records.
NewThread ==
    [pc |-> "emb_check", found |-> "unset", load |-> "no", exc |-> NoError]

Threads == BagToSet(threads)

IdleReq ==
    [kind |-> "none", pc |-> "idle", image_data |-> "None",
     status_at_call |-> "none", outcome |-> "none",
     decoded |-> 0, searched |-> 0, search_raised |-> FALSE,
     retrieved |-> <<>>, prompt |-> "none",
     gen_calls |-> 0, gen_image |-> FALSE, raised |-> NoError,
     result |-> [answer |-> <<>>, links |-> <<>>]]

\* the process right after "rag_engine = RAGEngine(settings)" of main.py
Init ==
    /\ contentDir \in ContentDirs
    /\ disk \in DiskStates
    /\ bootDisk = disk
    /\ _embedding_model = None
    /\ _gemini_model = None
    /\ _vector_store = NoStore
    /\ _initialization_complete = FALSE
    /\ _initialization_error = NoError
    /\ threads = SetToBag({NewThread})
    /\ req = IdleReq

(***************************************************************************)
(* Readiness and health.                                                   *)
(***************************************************************************)
\* Python truthiness of _initialization_error (None and "" are falsy)
ErrorIsTruthy(err) == err # NoError /\ err # ""

is_ready_once_embedding_loaded == _embedding_model # None

is_ready == _initialization_complete

get_initialization_status ==
    IF ErrorIsTruthy(_initialization_error)
    THEN [status |-> "error", error |-> _initialization_error]
    ELSE IF _initialization_complete
    THEN [status |-> "ready", error |-> NoError]
    ELSE [status |-> "initializing", error |-> NoError]

\* GET /health
health_check == get_initialization_status

(***************************************************************************)
(* Warm-up: initialize_in_background, one step per shared access.          *)
(***************************************************************************)
\* thread t moves on to local state u
Step(t, u) == threads' = (threads (-) SetToBag({t})) (+) SetToBag({u})

\* the except clause of initialize_in_background
Fail(t, m) ==
    /\ _initialization_error' = m
    /\ Step(t, [t EXCEPT !.pc = "failed", !.exc = m])

\* RAGEngine.__init__: starts one more init_thread
NewEngine ==
    /\ BagCardinality(threads) < MaxEngines
    /\ threads' = threads (+) SetToBag({NewThread})
    /\ UNCHANGED <<contentDir, disk, bootDisk, globals, req>>

\* get_embedding_model: the test "_embedding_model is None"
EmbCheck(t) ==
    /\ t.pc = "emb_check"
    /\ Step(t, [t EXCEPT !.pc =
            IF _embedding_model = None THEN "emb_init" ELSE "gem_check"])
    /\ UNCHANGED <<contentDir, disk, bootDisk, globals, req>>

\* get_embedding_model: HuggingFaceEmbeddings(...) returns or raises
EmbInit(t) ==
    /\ t.pc = "emb_init"
    /\ \/ /\ _embedding_model' = "embeddings"
          /\ Step(t, [t EXCEPT !.pc = "gem_check"])
          /\ UNCHANGED _initialization_error
       \/ /\ \E m \in Messages : Fail(t, m)
          /\ UNCHANGED _embedding_model
    /\ UNCHANGED <<contentDir, disk, bootDisk, _gemini_model,
                   _vector_store, _initialization_complete, req>>

\* get_gemini_model: the test "_gemini_model is None"
GemCheck(t) ==
    /\ t.pc = "gem_check"
    /\ Step(t, [t EXCEPT !.pc =
            IF _gemini_model = None THEN "gem_init" ELSE "vs_check"])
    /\ UNCHANGED <<contentDir, disk, bootDisk, globals, req>>

\* get_gemini_model: genai.configure and GenerativeModel(...) return or raise
GemInit(t) ==
    /\ t.pc = "gem_init"
    /\ \/ /\ _gemini_model' = "gemini"
          /\ Step(t, [t EXCEPT !.pc = "vs_check"])
          /\ UNCHANGED _initialization_error
       \/ /\ \E m \in Messages : Fail(t, m)
          /\ UNCHANGED _gemini_model
    /\ UNCHANGED <<contentDir, disk, bootDisk, _embedding_model,
                   _vector_store, _initialization_complete, req>>

\* get_vector_store: "_vector_store is None" and Path(...).exists()
VsCheck(t) ==
    /\ t.pc = "vs_check"
    /\ Step(t, [t EXCEPT !.pc =
            IF _vector_store # NoStore THEN "vs_return"
            ELSE IF disk.exists THEN "vs_load" ELSE "vs_missing"])
    /\ UNCHANGED <<contentDir, disk, bootDisk, globals, req>>

\* get_vector_store: FAISS.load_local returns the persisted index, or raises
\* and the except clause stores None
VsLoad(t) ==
    /\ t.pc = "vs_load"
    /\ \/ /\ _vector_store' = disk
          /\ Step(t, [t EXCEPT !.pc = "vs_return", !.load = "ok"])
       \/ /\ _vector_store' = NoStore
          /\ Step(t, [t EXCEPT !.pc = "vs_return", !.load = "raised"])
    /\ UNCHANGED <<contentDir, disk, bootDisk, _embedding_model,
                   _gemini_model, _initialization_complete,
                   _initialization_error, req>>

\* get_vector_store: the else branch, no index at the path
VsMissing(t) ==
    /\ t.pc = "vs_missing"
    /\ _vector_store' = NoStore
    /\ Step(t, [t EXCEPT !.pc = "vs_return"])
    /\ UNCHANGED <<contentDir, disk, bootDisk, _embedding_model,
                   _gemini_model, _initialization_complete,
                   _initialization_error, req>>

AfterVectorStoreAlwaysBuild(vector_store, documents) ==
    IF documents # <<>> THEN "build" ELSE "finish"

\* "if vector_store is None:" and "if documents:" decide whether to build
AfterVectorStore(vector_store, documents) ==
    IF vector_store = NoStore /\ documents # <<>> THEN "build" ELSE "finish"

\* "return _vector_store" of get_vector_store, then the two tests
VsReturn(t) ==
    /\ t.pc = "vs_return"
    /\ Step(t, [t EXCEPT
            !.pc = AfterVectorStore(_vector_store, _load_documents(contentDir)),
            !.found = IF _vector_store = NoStore THEN "none" ELSE "store"])
    /\ UNCHANGED <<contentDir, disk, bootDisk, globals, req>>

\* the index FAISS.from_documents builds from the loader's output
BuiltStore == Store(split_documents(_load_documents(contentDir)))

\* "_vector_store = FAISS.from_documents(...)": initialize_in_background
\* declares only the two flags global, so the assignment binds a local name
\* and the module-level _vector_store keeps its value
GlobalStoreAfterBuild(current, built) == current

\* split_documents and FAISS.from_documents return or raise
Build(t) ==
    /\ t.pc = "build"
    /\ \/ /\ BuiltStore.docs # <<>>
          /\ Step(t, [t EXCEPT !.pc = "save"])
          /\ _vector_store' = GlobalStoreAfterBuild(_vector_store, BuiltStore)
          /\ UNCHANGED _initialization_error
       \/ /\ \E m \in Messages : Fail(t, m)
          /\ UNCHANGED _vector_store
    /\ UNCHANGED <<contentDir, disk, bootDisk, _embedding_model,
                   _gemini_model, _initialization_complete, req>>

SavedNowhere(built) == NoStore

\* what save_local leaves at the configured path
SavedIndex(built) == built

\* _vector_store.save_local returns or raises
Save(t) ==
    /\ t.pc = "save"
    /\ \/ /\ disk' = SavedIndex(BuiltStore)
          /\ Step(t, [t EXCEPT !.pc = "finish"])
          /\ UNCHANGED _initialization_error
       \/ /\ \E m \in Messages : Fail(t, m)
          /\ UNCHANGED disk
    /\ UNCHANGED <<contentDir, bootDisk, _embedding_model, _gemini_model,
                   _vector_store, _initialization_complete, req>>

\* "_initialization_complete = True"
Finish(t) ==
    /\ t.pc = "finish"
    /\ _initialization_complete' = TRUE
    /\ Step(t, [t EXCEPT !.pc = "done"])
    /\ UNCHANGED <<contentDir, disk, bootDisk, _embedding_model,
                   _gemini_model, _vector_store, _initialization_error, req>>

\* a thread that found no index, got documents from the loader and completed
BuiltAndDone(t) ==
    t.pc = "done" /\ t.found = "none" /\ _load_documents(contentDir) # <<>>

\* the process started with an index at the path that an earlier process
\* built from the loader's output and persisted (the index the service is
\* first deployed with is another one)
StartedAfterBuild == bootDisk.exists /\ bootDisk # PersistedIndex

\* the process ends and is started again: memory is lost, the disk is kept
Restart ==
    /\ bootDisk' = disk
    /\ _embedding_model' = None
    /\ _gemini_model' = None
    /\ _vector_store' = NoStore
    /\ _initialization_complete' = FALSE
    /\ _initialization_error' = NoError
    /\ threads' = SetToBag({NewThread})
    /\ req' = IdleReq
    /\ UNCHANGED <<contentDir, disk>>

(***************************************************************************)
(* RAGEngine.answer_question.                                              *)
(* Every stage of the try block yields its value and the exception that    *)
(* escapes the stage (NoError when none does); an escaped exception is     *)
(* handled by the except clause at the end of the method.                  *)
(***************************************************************************)
\* image_data: absent, the empty string, base64 of an image, anything else
ImageInputs == {"None", "", "valid", "malformed"}

\* base64.b64decode and Image.open raise on a payload that is no image
DecodeRaises(image_data) == image_data = "malformed"

ProcessImageUnguarded(image_data) ==
    IF image_data \in {"None", ""}
    THEN [image |-> FALSE, attempts |-> 0, escaped |-> NoError]
    ELSE IF DecodeRaises(image_data)
    THEN [image |-> FALSE, attempts |-> 1, escaped |-> "cannot identify image file"]
    ELSE [image |-> TRUE, attempts |-> 1, escaped |-> NoError]

\* "if image_data:" and the inner try/except, which logs and goes on
ProcessImage(image_data) ==
    IF image_data \in {"None", ""}
    THEN [image |-> FALSE, attempts |-> 0, escaped |-> NoError]
    ELSE IF DecodeRaises(image_data)
    THEN [image |-> FALSE, attempts |-> 1, escaped |-> NoError]
    ELSE [image |-> TRUE, attempts |-> 1, escaped |-> NoError]

Injective(f) == \A a, b \in DOMAIN f : a # b => f[a] # f[b]

\* FAISS similarity_search: the min(k, n) nearest chunks, best first, in an
\* order the query decides
similarity_search(docs, k) ==
    LET n == Len(docs)
        m == Min2(k, n)
    IN  {[i \in 1..m |-> docs[f[i]]] : f \in {g \in [1..m -> 1..n] : Injective(g)}}

SearchOutcomes(store) ==
    {[raised |-> TRUE, docs |-> <<>>]}
    \cup {[raised |-> FALSE, docs |-> r] :
            r \in similarity_search(store.docs, NUM_RETRIEVED_DOCS)}

RetrieveDocsUnguarded(store, search) ==
    [docs |-> IF store.exists /\ ~search.raised THEN search.docs ELSE <<>>,
     calls |-> IF store.exists THEN 1 ELSE 0,
     escaped |-> IF store.exists /\ search.raised THEN "search failed" ELSE NoError]

\* "if _vector_store:" and the inner try/except around the search, which
\* logs and leaves relevant_docs empty
RetrieveDocs(store, search) ==
    [docs |-> IF store.exists /\ ~search.raised THEN search.docs ELSE <<>>,
     calls |-> IF store.exists THEN 1 ELSE 0,
     escaped |-> NoError]

LinkOf(source) ==
    [url |-> source, text |-> _format_source_as_link_text(source)]

RECURSIVE ExtractLinksOnce(_, _)
ExtractLinksOnce(docs, seen) ==
    IF docs = <<>> THEN <<>>
    ELSE LET source == Head(docs).metadata.source
         IN  (IF source # <<>> /\ source \notin seen
              THEN <<LinkOf(source)>> ELSE <<>>)
             \o ExtractLinksOnce(Tail(docs), seen \cup {source})

ExtractLinksDeduplicated(docs) == ExtractLinksOnce(docs, {})

RECURSIVE ExtractLinks(_)
\* the for loop over relevant_docs: "if source:" appends a link
ExtractLinks(docs) ==
    IF docs = <<>> THEN <<>>
    ELSE (IF Head(docs).metadata.source # <<>>
          THEN <<LinkOf(Head(docs).metadata.source)>> ELSE <<>>)
         \o ExtractLinks(Tail(docs))

RECURSIVE BuildContext(_)
\* context += doc.page_content + "\n\n"
BuildContext(docs) ==
    IF docs = <<>> THEN <<>>
    ELSE Head(docs).page_content \o <<"\n\n">> \o BuildContext(Tail(docs))

_create_prompt_grounded(context) == [template |-> "context", context |-> context]

\* "if context:" chooses between the template that carries the context block
\* and the general-knowledge template
_create_prompt(context) ==
    IF context # <<>> THEN [template |-> "context", context |-> context]
    ELSE [template |-> "general", context |-> <<>>]

GeneratedText == <<"generated text">>

\* generate_content and response.text return a text or raise
GenOutcomes ==
    {[raised |-> FALSE, text |-> GeneratedText],
     [raised |-> TRUE, text |-> <<"quota exceeded">>]}

GenerateWithRetry(model, image, gen) ==
    IF model = None
    THEN [calls |-> 0, with_image |-> FALSE, text |-> <<>>,
          escaped |-> "'NoneType' object has no attribute 'generate_content'"]
    ELSE [calls |-> IF gen.raised THEN 2 ELSE 1, with_image |-> image,
          text |-> IF gen.raised THEN <<>> ELSE gen.text,
          escaped |-> IF gen.raised THEN gen.text[1] ELSE NoError]

\* the generator call: "if image:" passes [prompt, image], else prompt; a
\* model that is None raises AttributeError
Generate(model, image, gen) ==
    IF model = None
    THEN [calls |-> 0, with_image |-> FALSE, text |-> <<>>,
          escaped |-> "'NoneType' object has no attribute 'generate_content'"]
    ELSE [calls |-> 1, with_image |-> image,
          text |-> IF gen.raised THEN <<>> ELSE gen.text,
          escaped |-> IF gen.raised THEN gen.text[1] ELSE NoError]

\* the return at the end of the try block
SuccessResult(answer, links) == [answer |-> answer, links |-> links]

ApologyPrefix == "I'm sorry, I encountered an error [...] Error details: "

ErrorResultWithLinks(e, links) ==
    [answer |-> <<ApologyPrefix, e>>, links |-> links]

\* the return of the except clause; links is what the loop had collected
ErrorResult(e, links) == [answer |-> <<ApologyPrefix, e>>, links |-> <<>>]

LeavesMethodUncaught(e) == TRUE

\* "except Exception as e" at the end of answer_question catches every
\* exception of the try block, so none leaves the method
LeavesMethod(e) == FALSE

\* the body of answer_question after the readiness check
AnswerFlow(image_data, store, model, search, gen) ==
    LET img == ProcessImage(image_data)
        ret == IF img.escaped = NoError THEN RetrieveDocs(store, search)
               ELSE [docs |-> <<>>, calls |-> 0, escaped |-> img.escaped]
        links == ExtractLinks(ret.docs)
        prompt == _create_prompt(BuildContext(ret.docs))
        out == IF ret.escaped = NoError THEN Generate(model, img.image, gen)
               ELSE [calls |-> 0, with_image |-> FALSE, text |-> <<>>,
                     escaped |-> ret.escaped]
    IN  [decoded |-> img.attempts,
         searched |-> ret.calls,
         search_raised |-> ret.calls = 1 /\ search.raised,
         retrieved |-> ret.docs,
         prompt |-> IF ret.escaped = NoError THEN prompt.template ELSE "none",
         gen_calls |-> out.calls,
         gen_image |-> out.with_image,
         raised |-> out.escaped,
         left |-> out.escaped # NoError /\ LeavesMethod(out.escaped),
         result |-> IF out.escaped # NoError
                    THEN ErrorResult(out.escaped, links)
                    ELSE SuccessResult(out.text, links)]

Arrive(kind, image_data) ==
    [IdleReq EXCEPT !.kind = kind, !.image_data = image_data,
                    !.status_at_call = get_initialization_status.status]

\* POST /: the handler's own readiness check (503) before it calls the engine
PostQuestion ==
    /\ req.pc = "idle"
    /\ \E image_data \in ImageInputs :
          req' = IF ~is_ready
                 THEN [Arrive("post", image_data) EXCEPT !.pc = "done", !.outcome = "503"]
                 ELSE [Arrive("post", image_data) EXCEPT !.pc = "aq_check"]
    /\ UNCHANGED <<contentDir, disk, bootDisk, globals, threads>>

\* rag_engine.answer_question called directly, as tests/test_rag.py does with
\* a question and no image: its readiness check
CallAnswerQuestion ==
    /\ req.pc = "idle"
    /\ \E image_data \in {"None"} :
          req' = IF ~is_ready
                 THEN [Arrive("direct", image_data) EXCEPT
                          !.pc = "done", !.outcome = "not_ready"]
                 ELSE [Arrive("direct", image_data) EXCEPT !.pc = "aq_run"]
    /\ UNCHANGED <<contentDir, disk, bootDisk, globals, threads>>

\* answer_question's readiness check when called by the POST handler; the
\* exception it raises is turned into a 500 by the handler's except clause
CheckReady ==
    /\ req.pc = "aq_check"
    /\ req' = IF ~is_ready
              THEN [req EXCEPT !.pc = "done", !.outcome = "500"]
              ELSE [req EXCEPT !.pc = "aq_run"]
    /\ UNCHANGED <<contentDir, disk, bootDisk, globals, threads>>

StoreDroppedOnError(store, search) == IF search.raised THEN NoStore ELSE store

\* the module-level _vector_store after the method: answer_question names the
\* three singletons in a global statement but assigns none of them, and the
\* search only reads the index
StoreAfterAnswer(store, search) == store

\* what the caller gets: the dictionary, or the exception that left the
\* method (for POST / the handler answers 200, or 500 from its except clause)
Outcome(kind, left) ==
    IF kind = "post" THEN (IF left THEN "500" ELSE "200")
    ELSE (IF left THEN "exception" ELSE "returned")

\* the try block of answer_question, and for POST / the AnswerResponse
RunAnswer ==
    /\ req.pc = "aq_run"
    /\ \E search \in SearchOutcomes(_vector_store), gen \in GenOutcomes :
          LET r == AnswerFlow(req.image_data, _vector_store, _gemini_model,
                              search, gen)
          IN  /\ req' = [req EXCEPT
                        !.pc = "done",
                        !.outcome = Outcome(req.kind, r.left),
                        !.decoded = r.decoded, !.searched = r.searched,
                        !.search_raised = r.search_raised,
                        !.retrieved = r.retrieved, !.prompt = r.prompt,
                        !.gen_calls = r.gen_calls, !.gen_image = r.gen_image,
                        !.raised = r.raised,
                        !.result = IF r.left THEN IdleReq.result ELSE r.result]
              /\ _vector_store' = StoreAfterAnswer(_vector_store, search)
    /\ UNCHANGED <<contentDir, disk, bootDisk, _embedding_model, _gemini_model,
                   _initialization_complete, _initialization_error, threads>>

\* the caller has its response (or exception); the next call can be made
Return ==
    /\ req.pc = "done"
    /\ req' = IdleReq
    /\ UNCHANGED <<contentDir, disk, bootDisk, globals, threads>>

Next ==
    \/ NewEngine
    \/ \E t \in Threads : EmbCheck(t)
    \/ \E t \in Threads : EmbInit(t)
    \/ \E t \in Threads : GemCheck(t)
    \/ \E t \in Threads : GemInit(t)
    \/ \E t \in Threads : VsCheck(t)
    \/ \E t \in Threads : VsLoad(t)
    \/ \E t \in Threads : VsMissing(t)
    \/ \E t \in Threads : VsReturn(t)
    \/ \E t \in Threads : Build(t)
    \/ \E t \in Threads : Save(t)
    \/ \E t \in Threads : Finish(t)
    \/ Restart
    \/ PostQuestion
    \/ CallAnswerQuestion
    \/ CheckReady
    \/ RunAnswer
    \/ Return

Spec == Init /\ [][Next]_vars

(***************************************************************************)
(* The process as main.py runs it: the one RAGEngine of line 34, its       *)
(* warm-up thread, and the calls made to it.                               *)
(***************************************************************************)
NextOneEngine ==
    \/ \E t \in Threads : EmbCheck(t)
    \/ \E t \in Threads : EmbInit(t)
    \/ \E t \in Threads : GemCheck(t)
    \/ \E t \in Threads : GemInit(t)
    \/ \E t \in Threads : VsCheck(t)
    \/ \E t \in Threads : VsLoad(t)
    \/ \E t \in Threads : VsMissing(t)
    \/ \E t \in Threads : VsReturn(t)
    \/ \E t \in Threads : Build(t)
    \/ \E t \in Threads : Save(t)
    \/ \E t \in Threads : Finish(t)
    \/ PostQuestion
    \/ CallAnswerQuestion
    \/ CheckReady
    \/ RunAnswer
    \/ Return

SpecOneEngine == Init /\ [][NextOneEngine]_vars

(***************************************************************************)
(* The HTTP layer of main.py with its response times: the POST handler and *)
(* timeout_middleware, for the one engine main.py constructs.  Times are   *)
(* whole seconds.                                                          *)
(***************************************************************************)
MAX_RESPONSE_TIME == 30

\* elapsed times around 90% of the budget and around the budget
ElapsedTimes == {0, 27, 28, 30, 31}

\* AnswerResponse(answer=..., links=[Link(url=..., text=...) ...])
AnswerResponse(result) ==
    [answer |-> result.answer,
     links |-> [i \in DOMAIN result.links |->
                   [url |-> result.links[i].url, text |-> result.links[i].text]]]

\* the detail of the HTTPException raised by the handler
Detail(outcome, raised) ==
    IF outcome = "503" THEN <<"The RAG engine is still initializing.">>
    ELSE <<"An error occurred while processing your question: ", raised>>

\* what the POST handler hands to the middleware for the call in r
HandlerResponse(r) ==
    IF r.outcome = "200"
    THEN [status |-> "200", body |-> AnswerResponse(r.result)]
    ELSE [status |-> r.outcome,
          body |-> [answer |-> Detail(r.outcome, r.raised), links |-> <<>>]]

\* the handler's warning when answer_question took more than 90% of the budget
HandlerLog(outcome, elapsed) ==
    IF outcome = "200" /\ 10 * elapsed > 9 * MAX_RESPONSE_TIME
    THEN <<"approaching the maximum response time">> ELSE <<>>

TimeoutMiddlewareAborting(response, elapsed) ==
    [response |-> IF elapsed > MAX_RESPONSE_TIME
                  THEN [status |-> "504",
                        body |-> [answer |-> <<"timed out">>, links |-> <<>>]]
                  ELSE response,
     log |-> IF elapsed > MAX_RESPONSE_TIME
             THEN <<"Response time exceeded maximum">> ELSE <<>>]

\* timeout_middleware: awaits the response, logs when over budget, returns it
timeout_middleware(response, elapsed) ==
    [response |-> response,
     log |-> IF elapsed > MAX_RESPONSE_TIME
             THEN <<"Response time exceeded maximum">> ELSE <<>>]

\* the response of a POST / goes out through the middleware: in_handler is
\* the time the handler measured after answer_question, elapsed the time the
\* middleware measured around the whole handler
Deliver ==
    /\ req.pc = "done" /\ req.kind = "post"
    /\ \E in_handler \in ElapsedTimes, elapsed \in ElapsedTimes :
          /\ in_handler <= elapsed
          /\ LET out == timeout_middleware(HandlerResponse(req), elapsed)
             IN  req' = ("pc" :> "sent") @@ ("elapsed" :> elapsed)
                        @@ ("sent" :> out.response)
                        @@ ("log" :> HandlerLog(req.outcome, in_handler) \o out.log)
                        @@ req
    /\ UNCHANGED <<contentDir, disk, bootDisk, globals, threads>>

\* the client has the response
Close ==
    /\ req.pc = "sent"
    /\ req' = IdleReq
    /\ UNCHANGED <<contentDir, disk, bootDisk, globals, threads>>

NextTimeBudget ==
    \/ \E t \in Threads : EmbCheck(t)
    \/ \E t \in Threads : EmbInit(t)
    \/ \E t \in Threads : GemCheck(t)
    \/ \E t \in Threads : GemInit(t)
    \/ \E t \in Threads : VsCheck(t)
    \/ \E t \in Threads : VsLoad(t)
    \/ \E t \in Threads : VsMissing(t)
    \/ \E t \in Threads : VsReturn(t)
    \/ \E t \in Threads : Build(t)
    \/ \E t \in Threads : Save(t)
    \/ \E t \in Threads : Finish(t)
    \/ PostQuestion
    \/ CheckReady
    \/ RunAnswer
    \/ Deliver
    \/ Close

SpecTimeBudget == Init /\ [][NextTimeBudget]_vars

(***************************************************************************)
(* Warm-up of one engine on an empty VECTOR_DB_PATH, for every content     *)
(* directory of LoaderDirs: the Content Loader, the build and the save.    *)
(***************************************************************************)
InitLoader ==
    /\ contentDir \in LoaderDirs
    /\ disk = NoStore
    /\ bootDisk = disk
    /\ _embedding_model = None
    /\ _gemini_model = None
    /\ _vector_store = NoStore
    /\ _initialization_complete = FALSE
    /\ _initialization_error = NoError
    /\ threads = SetToBag({NewThread})
    /\ req = IdleReq

NextLoader ==
    \/ \E t \in Threads : EmbCheck(t)
    \/ \E t \in Threads : EmbInit(t)
    \/ \E t \in Threads : GemCheck(t)
    \/ \E t \in Threads : GemInit(t)
    \/ \E t \in Threads : VsCheck(t)
    \/ \E t \in Threads : VsMissing(t)
    \/ \E t \in Threads : VsReturn(t)
    \/ \E t \in Threads : Build(t)
    \/ \E t \in Threads : Save(t)
    \/ \E t \in Threads : Finish(t)

SpecLoader == InitLoader /\ [][NextLoader]_vars

(***************************************************************************)
(* Link labels taken alone: one engine that loads a persisted index of one *)
(* chunk, for every source of LinkSources, and the questions put to it.    *)
(***************************************************************************)
LinkComponents ==
    {"course_content", "discourse_posts", "onlinedegree.iitm.ac.in", "t",
     "12", "intro"}

RECURSIVE Join(_)
\* "/".join(parts)
Join(parts) ==
    IF Len(parts) = 1 THEN parts
    ELSE <<Head(parts), SLASH>> \o Join(Tail(parts))

\* up to MaxSegments components, with or without a suffix and a trailing "/"
LinkSources ==
    {Join(parts) \o suffix \o slash :
        parts \in UNION {[1..n -> LinkComponents] : n \in 1..MaxSegments},
        suffix \in {<<>>, <<".md">>},
        slash \in {<<>>, <<SLASH>>}}

InitLinks ==
    /\ contentDir = DirMissing
    /\ disk \in {Store(<<ChunkOf(source, "post.md", "#1")>>) : source \in LinkSources}
    /\ bootDisk = disk
    /\ _embedding_model = None
    /\ _gemini_model = None
    /\ _vector_store = NoStore
    /\ _initialization_complete = FALSE
    /\ _initialization_error = NoError
    /\ threads = SetToBag({NewThread})
    /\ req = IdleReq

NextLinks ==
    \/ \E t \in Threads : EmbCheck(t)
    \/ \E t \in Threads : EmbInit(t)
    \/ \E t \in Threads : GemCheck(t)
    \/ \E t \in Threads : GemInit(t)
    \/ \E t \in Threads : VsCheck(t)
    \/ \E t \in Threads : VsLoad(t)
    \/ \E t \in Threads : VsReturn(t)
    \/ \E t \in Threads : Finish(t)
    \/ PostQuestion
    \/ CheckReady
    \/ RunAnswer
    \/ Return

SpecLinks == InitLinks /\ [][NextLinks]_vars

(***************************************************************************)
(* Warm-up threads taken alone, scheduled fairly: each engine constructed  *)
(* starts a daemon thread (threading.Thread(...).start()), the scheduler   *)
(* runs every started thread, and every external call returns or raises,   *)
(* so a thread that has a next statement eventually executes it.           *)
(***************************************************************************)
WarmUpStep ==
    \/ \E t \in Threads : EmbCheck(t)
    \/ \E t \in Threads : EmbInit(t)
    \/ \E t \in Threads : GemCheck(t)
    \/ \E t \in Threads : GemInit(t)
    \/ \E t \in Threads : VsCheck(t)
    \/ \E t \in Threads : VsLoad(t)
    \/ \E t \in Threads : VsMissing(t)
    \/ \E t \in Threads : VsReturn(t)
    \/ \E t \in Threads : Build(t)
    \/ \E t \in Threads : Save(t)
    \/ \E t \in Threads : Finish(t)

NextWarmUp ==
    \/ NewEngine
    \/ WarmUpStep

SpecWarmUp == Init /\ [][NextWarmUp]_vars /\ WF_vars(WarmUpStep)

(***************************************************************************)
(* The warm-up threads of all engines of one process interleaved with the  *)
(* questions put to it.                                                    *)
(***************************************************************************)
NextEngines ==
    \/ NewEngine
    \/ WarmUpStep
    \/ PostQuestion
    \/ CallAnswerQuestion
    \/ CheckReady
    \/ RunAnswer
    \/ Return

SpecEngines == Init /\ [][NextEngines]_vars

(***************************************************************************)
(* Properties.                                                             *)
(***************************************************************************)
\* the call in req passed the readiness checks made so far
Accepted == req.kind # "none" /\ req.outcome \notin {"503", "not_ready"}

\* the call in req is finished and was not rejected as not ready
Answered == req.pc = "done" /\ Accepted

NoWork == req.decoded = 0 /\ req.searched = 0 /\ req.gen_calls = 0

\* C1: a call of answer_question or POST / made while the initialization
\* state (as the health check reports it) is initializing or error is
\* rejected with the not-ready signal and decodes, searches and generates
\* nothing.
C1_NotReadyIsRejected ==
    (req.kind # "none" /\ req.status_at_call # "ready")
        => /\ req.pc = "done"
           /\ req.outcome = (IF req.kind = "post" THEN "503" ELSE "not_ready")
           /\ NoWork

\* C2: within one process the initialization state, once ready or error,
\* never changes again, whatever runs afterwards (questions, further
\* RAGEngine constructions).
C2_TerminalStateNeverChanges ==
    [][Restart \/ (health_check.status \in {"ready", "error"}
                      => health_check' = health_check)]_vars

\* C3: when a step of the startup sequence has raised, with whatever
\* message, the state is error carrying that message and the health check
\* reports error.
C3_FailureIsReportedAsError ==
    \A t \in Threads :
        t.pc = "failed" => health_check = [status |-> "error", error |-> t.exc]

\* C4: a question accepted while ready always gets an AnswerResult (an answer
\* text and a list of links) and no exception, whatever decoding, search and
\* generation do; when an exception reached the except clause the answer is
\* the apology with the error detail and links is empty.
C4_AlwaysAnAnswerResult ==
    Answered =>
        /\ req.outcome \in {"200", "returned"}
        /\ req.result.answer # <<>>
        /\ req.result.links \in Seq({LinkOf(d.metadata.source) :
                                        d \in {req.retrieved[i] : i \in DOMAIN req.retrieved}})
        /\ req.raised # NoError =>
              /\ req.result.answer = <<ApologyPrefix, req.raised>>
              /\ req.result.links = <<>>
        /\ req.raised = NoError => req.result.answer = GeneratedText

\* C4 witness: the generator raised after chunks with sources were retrieved
C4_Witness ==
    /\ Answered
    /\ req.raised = "quota exceeded"
    /\ \E i \in DOMAIN req.retrieved : req.retrieved[i].metadata.source # <<>>
    /\ req.result.links = <<>>

\* C5: when warm-up found no persisted index, the loader returned documents
\* and the state is ready, the live index is the newly built one; in the
\* one-file scenario an answered question has exactly the one link of the
\* file's URL.
C5_BuiltIndexIsLive ==
    (\E t \in Threads : BuiltAndDone(t)) =>
        /\ _vector_store = BuiltStore
        /\ (contentDir = DirOneFile /\ Answered /\ req.raised = NoError
                /\ ~req.search_raised)
              => req.result.links = <<LinkOf(SrcExample)>>

\* C6 as claimed: whenever warm-up found no persisted index and completed,
\* an index built from the loader's output is persisted at the path, for
\* every content directory.
C6_AlwaysBuildsAndPersists ==
    \A t \in Threads :
        (t.pc = "done" /\ t.found = "none")
            => disk.exists /\ disk.docs = split_documents(_load_documents(contentDir))

\* C6 amended: whenever warm-up found no persisted index, the loader returned
\* at least one document and warm-up completed, the index built from the
\* loader's output is persisted at the path; the next process finds it there
\* and loads it, and builds again only after a load has raised.
C6_BuildsAndPersistsDocuments ==
    /\ \A t \in Threads :
          BuiltAndDone(t) => disk.exists /\ disk = BuiltStore
    /\ StartedAfterBuild =>
          /\ disk.exists /\ disk = BuiltStore
          /\ \A t \in Threads :
                /\ t.pc # "vs_missing"
                /\ t.pc \in {"build", "save"} => \E u \in Threads : u.load = "raised"
                /\ t.load = "ok" => _vector_store \in {BuiltStore, NoStore}

\* C6 witness: the process after one that built and persisted has loaded the
\* persisted index and completed
C6_Witness ==
    /\ StartedAfterBuild
    /\ \E t \in Threads : t.load = "ok" /\ t.pc = "done"
    /\ _vector_store = BuiltStore

SourcesOf(docs) == [i \in DOMAIN docs |-> docs[i].metadata.source]

HasSource(doc) == doc.metadata.source # <<>>

\* C8: in a successful answer the links are the retrieved chunks that have a
\* source, in retrieval order, one {url, text} entry each with duplicates
\* kept, so never more than the chunks retrieved, at most NUM_RETRIEVED_DOCS.
C8_LinksFollowRetrieval ==
    (Answered /\ req.raised = NoError) =>
        LET withSource == SelectSeq(req.retrieved, HasSource)
            links == req.result.links
        IN  /\ Len(links) = Len(withSource)
            /\ \A i \in DOMAIN links :
                  /\ links[i].url = withSource[i].metadata.source
                  /\ links[i].text = _format_source_as_link_text(links[i].url)
            /\ Len(links) <= Len(req.retrieved)
            /\ Len(req.retrieved) <= NUM_RETRIEVED_DOCS
            /\ SourcesOf(req.retrieved) = <<SrcCourse, SrcCourse, SrcPostFile>>
                  => links = <<LinkOf(SrcCourse), LinkOf(SrcCourse),
                               LinkOf(SrcPostFile)>>

\* C8 witness: sources [A, A, B] were retrieved and answered with three links
C8_Witness ==
    /\ Answered /\ req.raised = NoError
    /\ SourcesOf(req.retrieved) = <<SrcCourse, SrcCourse, SrcPostFile>>
    /\ Len(req.result.links) = 3

\* a retrieved chunk without a source gave no link
NoSourceNoLink ==
    /\ Answered /\ req.raised = NoError
    /\ \E i \in DOMAIN req.retrieved : ~HasSource(req.retrieved[i])
    /\ Len(req.result.links) < Len(req.retrieved)

\* C9: an accepted question whose image payload cannot be decoded is answered
\* as one without image: the generator is invoked, with the prompt only, and
\* the normal result is returned unless the generator itself raises; the
\* generator gets an image only when a payload was given and decoded.
C9_MalformedImageIsNoImage ==
    Answered =>
        /\ req.image_data = "malformed" =>
              /\ req.decoded = 1
              /\ req.gen_calls = 1
              /\ ~req.gen_image
              /\ req.raised \in {NoError, "quota exceeded"}
              /\ req.raised = NoError => req.result.answer = GeneratedText
        /\ req.gen_image => req.image_data = "valid" /\ req.decoded = 1

\* C9 witness: a malformed payload, answered from the text prompt
C9_Witness ==
    /\ Answered /\ req.image_data = "malformed"
    /\ req.result.answer = GeneratedText
    /\ ~req.gen_image

\* C10: the health check reports ready exactly when questions are accepted,
\* error with the message exactly when a startup failure was recorded, and
\* initializing otherwise.
C10_HealthIsTheInitializationState ==
    /\ health_check.status = "ready" <=> is_ready
    /\ health_check.status = "error" <=> \E t \in Threads : t.pc = "failed"
    /\ health_check.status = "error" => \E t \in Threads : t.exc = health_check.error

\* C11: POST / never answers 500 because of the engine: once the handler's
\* own readiness check has passed, the engine's readiness check passes too
\* under every interleaving with the warm-up threads, and the request is
\* answered 200 with an AnswerResult whatever decoding, retrieval and
\* generation do.
C11_NoServerErrorFromEngine ==
    /\ req.outcome # "500"
    /\ (req.kind = "post" /\ req.pc \in {"aq_check", "aq_run"}) => is_ready
    /\ (req.kind = "post" /\ req.pc = "done" /\ req.outcome # "503") =>
          /\ req.outcome = "200"
          /\ req.result.answer \in {GeneratedText, <<ApologyPrefix, req.raised>>}
          /\ req.result.links \in Seq({LinkOf(s) : s \in {SrcExample, SrcCourse,
                                                         SrcDiscourse, SrcPostFile}})

\* C11 witness: a POST answered 200 with the apology after the generator
\* raised, while another warm-up thread was still running
C11_Witness ==
    /\ req.kind = "post" /\ req.pc = "done" /\ req.outcome = "200"
    /\ req.raised = "quota exceeded"
    /\ \E t \in Threads : t.pc \notin {"done", "failed"}

\* the number of warm-up threads that satisfy P
CountThreads(P(_)) ==
    BagCardinality([t \in {u \in Threads : P(u)} |-> CopiesIn(t, threads)])

ConstructingEmbedding(t) == t.pc = "emb_init"
ConstructingGenerator(t) == t.pc = "gem_init"
\* the thread is in, or has been through, FAISS.load_local or from_documents
ConstructsIndex(t) == t.pc \in {"vs_load", "build", "save"} \/ t.load # "no"

\* C12: the embedding model, the generative model and the vector index are
\* each constructed at most once per process: never are two warm-up threads
\* constructing the same model at once, and never does more than one thread
\* load or build the index.
C12_SingletonsConstructedOnce ==
    /\ CountThreads(ConstructingEmbedding) <= 1
    /\ CountThreads(ConstructingGenerator) <= 1
    /\ CountThreads(ConstructsIndex) <= 1

C14_AtMostOneGeneratorCall ==
    /\ req.gen_calls \in {0, 1}
    /\ (req.pc # "done" \/ req.outcome \in {"503", "not_ready"}) => req.gen_calls = 0
    /\ (Answered /\ req.raised = NoError) => req.gen_calls = 1
    /\ (Answered /\ req.raised = "quota exceeded") => req.gen_calls = 1

\* C14 witness: decoding, retrieval and the generator call all failed
C14_Witness ==
    /\ Answered /\ req.image_data = "malformed" /\ req.search_raised
    /\ req.raised = "quota exceeded" /\ req.gen_calls = 1

PastEmbedding ==
    {"gem_check", "gem_init", "vs_check", "vs_load", "vs_missing", "vs_return",
     "build", "save", "finish", "done"}
PastGenerator ==
    {"vs_check", "vs_load", "vs_missing", "vs_return", "build", "save",
     "finish", "done"}

\* the thread failed in get_embedding_model or get_gemini_model: it never
\* reached get_vector_store
FailedBeforeIndex(t) == t.pc = "failed" /\ t.found = "unset" /\ t.load = "no"

\* a run starts a step only after the earlier ones succeeded, and the ready
\* flag is set only by a run that went through all three
StartupStepsOrdered ==
    /\ \A t \in Threads :
          /\ t.pc \in PastEmbedding => _embedding_model # None
          /\ t.pc \in PastGenerator => _gemini_model # None
          /\ t.pc \in {"build", "save"} => t.found = "none"
    /\ _initialization_complete =>
          /\ \E t \in Threads : t.pc = "done" /\ t.found # "unset"
          /\ _embedding_model # None /\ _gemini_model # None

\* C16: within a run of the startup sequence the steps are ordered
\* embedding init, generator init, index load/build, none started before the
\* earlier one succeeded; the ready flag is set only after all three; and a
\* run whose embedding or generator init failed has skipped the later steps
\* and left the state error.
C16_StartupInOrderOrError ==
    /\ StartupStepsOrdered
    /\ \A t \in Threads :
          FailedBeforeIndex(t) =>
              (BagCardinality(threads) = 1 => health_check.status = "error")

\* the thread ran the Content Loader (get_vector_store returned None to it)
RanLoader(t) == t.found = "none"

\* C17 as claimed: when the process started with a persisted index at the
\* path, warm-up never runs the Content Loader, the chunker or the build and
\* never overwrites the persisted index, whatever loading it does.
C17_NeverRebuildsOverPersisted ==
    bootDisk.exists =>
        /\ \A t \in Threads : ~RanLoader(t) /\ t.pc \notin {"build", "save"}
        /\ disk = bootDisk

\* C17 amended: when the process started with a persisted index at the
\* path, warm-up always tries to load it, and runs the Content Loader, the
\* chunker and the build, and overwrites the persisted index, only after a
\* load of it has raised.
C17_RebuildsOnlyAfterFailedLoad ==
    bootDisk.exists =>
        /\ disk.exists
        /\ \A t \in Threads :
              /\ t.pc # "vs_missing"
              /\ (RanLoader(t) \/ t.pc \in {"build", "save"})
                    => \E u \in Threads : u.load = "raised"
        /\ (\A t \in Threads : t.load # "raised") => disk = bootDisk

\* C17 witness: the persisted index was loaded and warm-up completed without
\* a build although the content directory holds documents
C17_Witness ==
    /\ bootDisk.exists /\ disk = bootDisk
    /\ _load_documents(contentDir) # <<>>
    /\ \E t \in Threads : t.pc = "done" /\ t.load = "ok" /\ t.found = "store"
    /\ \A t \in Threads : t.load # "raised"

\* the files of the content directory the loader makes documents of
ReadableMatch(file) == IsMarkdown(file) /\ file.readable
LoadableFiles == SelectSeq(contentDir.files, ReadableMatch)

\* C18: the Content Loader returns no document for a missing directory and
\* exactly one document per readable *.md file otherwise, a file that can
\* not be read being skipped alone; it never raises, so a warm-up that ran
\* the loader fails only in the build or the save of a non-empty output,
\* and with no document it completes.
C18_LoaderSkipsAndNeverRaises ==
    LET docs == _load_documents(contentDir)
    IN  /\ ~contentDir.exists => docs = <<>>
        /\ Len(docs) = Len(LoadableFiles)
        /\ \A i \in DOMAIN docs :
              /\ docs[i].metadata.filename = LoadableFiles[i].name
              /\ docs[i].page_content = LoadableFiles[i].lines
        /\ \A t \in Threads :
              /\ (t.pc = "failed" /\ RanLoader(t)) => docs # <<>>
              /\ (RanLoader(t) /\ docs = <<>>) => t.pc \in {"finish", "done"}
              /\ t.pc \in {"save", "finish", "done"} /\ RanLoader(t) /\ docs # <<>>
                    => Len(BuiltStore.docs) = Len(LoadableFiles)
              /\ (t.pc = "done" /\ RanLoader(t) /\ docs # <<>>) => disk = BuiltStore

\* C18 witness: a batch whose middle file cannot be read was loaded without
\* it, built, saved, and warm-up is ready
C18_Witness ==
    /\ Len(contentDir.files) = 3
    /\ IsMarkdown(contentDir.files[2]) /\ ~contentDir.files[2].readable
    /\ Len(_load_documents(contentDir)) = 2
    /\ \E t \in Threads : t.pc = "done" /\ RanLoader(t)
    /\ Len(disk.docs) = 2
    /\ health_check.status = "ready"

\* a missing content directory ends in ready with nothing built
MissingDirectoryIsReady ==
    /\ ~contentDir.exists
    /\ \E t \in Threads : t.pc = "done" /\ RanLoader(t)
    /\ health_check.status = "ready" /\ disk = NoStore

\* the lines of a file that contain the marker
MarkerLines(lines) == {i \in DOMAIN lines : Contains(lines[i], MARK)}

Min(S) == CHOOSE x \in S : \A y \in S : x <= y

\* the text after the (first) marker of a line, trimmed
RemainderAfterMarker(line) ==
    LET p == Min({i \in DOMAIN line : line[i] = MARK})
    IN  Strip(SubSeq(line, p + 1, Len(line)))

\* C19: for each file the Content Loader has loaded, the document's source is
\* the trimmed text after the marker of the first line containing the marker
\* (later marker lines ignored), and empty when no line contains it; the
\* content is the full text and the filename the file's name.
C19_SourceIsRemainderAfterMarker ==
    LET docs == IF \E t \in Threads : RanLoader(t)
                THEN _load_documents(contentDir) ELSE <<>>
    IN  \A i \in DOMAIN docs :
            LET lines == LoadableFiles[i].lines
            IN  /\ docs[i].metadata.source =
                      IF MarkerLines(lines) = {} THEN <<>>
                      ELSE RemainderAfterMarker(lines[Min(MarkerLines(lines))])
                /\ docs[i].page_content = lines
                /\ docs[i].metadata.filename = LoadableFiles[i].name

\* the same for files whose first marker line begins with the marker
C19_HoldsWhenMarkerLeadsTheLine ==
    LET docs == IF \E t \in Threads : RanLoader(t)
                THEN _load_documents(contentDir) ELSE <<>>
    IN  \A i \in DOMAIN docs :
            LET lines == LoadableFiles[i].lines
            IN  (MarkerLines(lines) # {}
                    /\ Head(LStrip(lines[Min(MarkerLines(lines))])) = MARK)
                  => docs[i].metadata.source =
                        RemainderAfterMarker(lines[Min(MarkerLines(lines))])

\* the text of a chunk, followed by the blank line the loop appends
BlockOf(doc) == doc.page_content \o <<"\n\n">>

\* the tokens of a chunk's block: a chunk text is a file name and a part
\* name (ChunkOf, SplitOne)
BlockLen == Len(BlockOf(ChunkOf(SrcCourse, "week1.md", "#1")))

\* C20: for an accepted question the context block is the texts of the
\* retrieved chunks in ranked order; the context-grounded prompt is used
\* exactly when the block is non-empty, the general-knowledge prompt exactly
\* when it is empty, and the block is empty exactly when no chunk was
\* retrieved, as it is without a live index and after a retrieval error.
C20_PromptFollowsContext ==
    Answered =>
        LET context == BuildContext(req.retrieved)
        IN  /\ Len(context) = BlockLen * Len(req.retrieved)
            /\ \A i \in DOMAIN req.retrieved :
                  SubSeq(context, BlockLen * (i - 1) + 1, BlockLen * i)
                      = BlockOf(req.retrieved[i])
            /\ req.prompt \in {"context", "general"}
            /\ req.prompt = "context" <=> context # <<>>
            /\ req.prompt = "general" <=> context = <<>>
            /\ _create_prompt(context).context = context
            /\ context = <<>> <=> req.retrieved = <<>>
            /\ (req.searched = 0 \/ req.search_raised) => context = <<>>
            /\ req.retrieved = <<>> => (req.searched = 0 \/ req.search_raised)

\* C20 witness: the search on a live index raised and the general-knowledge
\* prompt was used
C20_Witness ==
    /\ Answered /\ _vector_store.exists /\ req.search_raised
    /\ req.prompt = "general"
    /\ req.gen_calls = 1

\* three chunks were retrieved and the context-grounded prompt was used
GroundedPromptUsed ==
    /\ Answered /\ Len(req.retrieved) = NUM_RETRIEVED_DOCS
    /\ req.prompt = "context"
    /\ Len(BuildContext(req.retrieved)) = BlockLen * NUM_RETRIEVED_DOCS

IsCourseMaterial(source) == Contains(source, "course_content")
IsDiscussionUrl(source) ==
    Contains(source, "onlinedegree.iitm.ac.in") /\ SlashAt(source) # {}

\* the answered question has links, each with the source of its chunk as url
LinksCarrySources ==
    LET withSource == SelectSeq(req.retrieved, HasSource)
    IN  /\ Len(req.result.links) = Len(withSource)
        /\ \A i \in DOMAIN withSource :
              req.result.links[i].url = withSource[i].metadata.source

\* C21 as claimed: the label of a link follows from its source alone: a
\* source containing 'course_content' gets "Course Material: " and its file
\* name; otherwise a discussion URL gets "Discussion: " and the title derived
\* from its last segment; any other source gets its last path component
\* as it is; the url of a link is the source of its chunk.
C21_LabelAsClaimed ==
    (Answered /\ req.raised = NoError) =>
        /\ LinksCarrySources
        /\ \A i \in DOMAIN req.result.links :
              LET source == req.result.links[i].url
                  text == req.result.links[i].text
              IN  text = IF IsCourseMaterial(source)
                         THEN <<"Course Material: ">> \o PathName(source)
                         ELSE IF IsDiscussionUrl(source)
                         THEN <<"Discussion: ", "Discourse Post #">> \o LastPart(source)
                         ELSE PathName(source)

\* C21 amended: as claimed for course material and for discussion URLs; of
\* the other sources, one containing 'onlinedegree.iitm.ac.in' without any
\* "/" gets "Discussion Post: " and the source, one containing
\* 'discourse_posts' gets "Discourse Post #" and its stem when the stem is a
\* number and "Discourse Post: " and its file name otherwise, and only the
\* remaining ones get their last path component as it is.
C21_LabelPrecedence ==
    (Answered /\ req.raised = NoError) =>
        /\ LinksCarrySources
        /\ \A i \in DOMAIN req.result.links :
              LET source == req.result.links[i].url
                  text == req.result.links[i].text
                  host == Contains(source, "onlinedegree.iitm.ac.in")
                  posts == Contains(source, "discourse_posts")
              IN  /\ IsCourseMaterial(source)
                        => text = <<"Course Material: ">> \o PathName(source)
                  /\ (~IsCourseMaterial(source) /\ IsDiscussionUrl(source))
                        => text = <<"Discussion: ", "Discourse Post #">> \o LastPart(source)
                  /\ (~IsCourseMaterial(source) /\ host /\ ~IsDiscussionUrl(source))
                        => text = <<"Discussion Post: ">> \o source
                  /\ (~IsCourseMaterial(source) /\ ~host /\ posts
                         /\ IsDigit(PathStem(source)))
                        => text = <<"Discourse Post #">> \o PathStem(source)
                  /\ (~IsCourseMaterial(source) /\ ~host /\ posts
                         /\ ~IsDigit(PathStem(source)))
                        => text = <<"Discourse Post: ">> \o PathName(source)
                  /\ (~IsCourseMaterial(source) /\ ~host /\ ~posts)
                        => text = PathName(source)

\* C21 witness: a source that is course material and a discussion URL at
\* once was retrieved and labelled as course material
C21_Witness ==
    /\ Answered /\ req.raised = NoError
    /\ Len(req.result.links) = 1
    /\ IsCourseMaterial(req.result.links[1].url)
    /\ IsDiscussionUrl(req.result.links[1].url)
    /\ req.result.links[1].text[1] = "Course Material: "

\* the thread has left initialize_in_background, by the end of the try block
\* or by the except clause
Terminated(t) == t.pc \in {"done", "failed"}

\* every warm-up thread of every engine constructed terminates
WarmUpThreadsTerminate == <>[](\A t \in Threads : Terminated(t))

\* C22: every warm-up thread terminates, and once a warm-up thread has
\* terminated the health check does not report 'initializing': the state is
\* ready or error.
C22_TerminatesAndLeavesInitializing ==
    /\ WarmUpThreadsTerminate
    /\ []((\E t \in Threads : Terminated(t))
            => health_check.status \in {"ready", "error"})

\* when no thread has raised an exception with an empty message, the second
\* half holds as well
ReportedUnlessEmptyMessage ==
    ((\E t \in Threads : Terminated(t)) /\ (\A t \in Threads : t.exc # ""))
        => health_check.status \in {"ready", "error"}

ModelsConstructed == _embedding_model # None /\ _gemini_model # None

\* the question in req has passed a readiness check: the handler's, the
\* engine's, or it has been answered
PassedReadinessCheck ==
    req.kind # "none" /\ (req.pc \in {"aq_check", "aq_run"} \/ Answered)

\* C23: under every interleaving of warm-up threads and questions, the ready
\* flag is set only when the embedding model and the generative model have
\* been written, a question that has passed a readiness check finds both
\* constructed, and no accepted question fails on a generator that is None.
C23_AcceptedQuestionFindsModels ==
    /\ _initialization_complete => ModelsConstructed
    /\ PassedReadinessCheck => ModelsConstructed
    /\ Answered =>
          req.raised # "'NoneType' object has no attribute 'generate_content'"

\* C23 witness: a question was accepted and answered while another warm-up
\* thread was still between its first and its last statement
C23_Witness ==
    /\ Answered
    /\ req.gen_calls = 1
    /\ ModelsConstructed
    /\ \E t \in Threads : ~Terminated(t) /\ t.pc # "emb_check"

====
